---- MODULE Spec2Model ----
(***************************************************************************)
(* dumpsta: scan the crates.io index for crates whose highest version      *)
(* depends on `insta`, subtract the crates already extracted under         *)
(* $CARGO_HOME/registry/src/<index>, and download + extract the rest, one  *)
(* request per second.  The model follows src/src/main.rs `main` step by   *)
(* step; names and version strings are plain strings, as in the program.   *)
(***************************************************************************)
EXTENDS Integers, Sequences, FiniteSets, TLC

\* ---------------------------------------------------------------- bounds
MaxCrates == 3      \* crates in the registry index
MaxLocal == 2       \* entries under registry/src/<index> and registry/cache/<index>
MaxThreads == 1     \* the --threads flag when it is not 0
NumCpus == 2        \* worker count used when --threads is 0

\* ------------------------------------------------------ program constants
ThrottleSecs == 1   \* sleep(Duration::from_secs(1))
Target == "insta"   \* dep.crate_name() == "insta"
None == "<none>"    \* Option::None of download_url

\* ----------------------------------------------------- registry contents
\* A crates_index::Version: name, version string, dependency names.  `ord`
\* is the position of the version in the index's ordering (highest wins),
\* `has_dl` says whether the registry configuration yields a download URL.
Ver(n, v, d, o, u) == [name |-> n, vers |-> v, deps |-> d, ord |-> o, has_dl |-> u]

\* A crate of the index: `load_ok` is FALSE for an entry crates_parallel()
\* yields as Err.
Crate(n, vs, ok) == [name |-> n, versions |-> vs, load_ok |-> ok]

CrateUniverse ==
    { Crate("a-1", {Ver("a-1", "2", {"insta"}, 1, TRUE)}, TRUE),
      Crate("a", {Ver("a", "1-2", {"insta", "serde"}, 1, TRUE)}, TRUE),
      Crate("b", {Ver("b", "1", {"insta"}, 1, TRUE),
                  Ver("b", "2", {"insta"}, 2, TRUE)}, TRUE),
      Crate("c", {Ver("c", "1", {"insta"}, 1, TRUE),
                  Ver("c", "2", {"serde"}, 2, TRUE)}, TRUE),
      Crate("d", {Ver("d", "1", {"insta"}, 1, FALSE)}, TRUE),
      Crate("e", {Ver("e", "1", {"insta"}, 1, TRUE)}, FALSE) }

\* An entry of read_dir(): `ok` is FALSE for an entry that is an Err,
\* `utf8` is FALSE when file_name().to_str() is None.
Entry(n, ok, u) == [name |-> n, ok |-> ok, utf8 |-> u]

EntryUniverse ==
    { Entry("a-1-2", TRUE, TRUE),
      Entry("b-1", TRUE, TRUE),
      Entry("b-2", TRUE, TRUE),
      Entry("x-1", FALSE, TRUE),
      Entry("y-1", TRUE, FALSE) }

\* archives that may lie in registry/cache/<index> before the run
CacheUniverse == { "b-2.crate" }

BoundedSubsets(S, n) == { T \in SUBSET S : Cardinality(T) <= n }

\* ------------------------------------------------------------ pure parts
\* a highest_version() that returns the oldest version
HighestVersion_Oldest(c) ==
    CHOOSE v \in c.versions : \A w \in c.versions : v.ord <= w.ord

\* krate.highest_version()
HighestVersion(c) ==
    CHOOSE v \in c.versions : \A w \in c.versions : w.ord <= v.ord

\* version.dependencies().iter().any(|dep| dep.crate_name() == "insta")
UsesInsta(v) == Target \in v.deps

\* format!("{}-{}", version.name(), version.version())
Key(v) == v.name \o "-" \o v.vers

\* a membership test that matches on the name alone
Contains_AnyVersion(l, v) ==
    \E w \in {"1", "2", "1-2"} : (v.name \o "-" \o w) \in l

\* LocalCrates::contains
Contains(l, v) == Key(v) \in l

\* version.download_url(&config)
DownloadUrl(v) ==
    IF v.has_dl THEN "dl/" \o v.name \o "/" \o v.vers \o "/download" ELSE None

\* a listing that is given up at the first entry that cannot be read
Listing_StopsAtBadEntry(entries) ==
    IF \E f \in entries : ~(f.ok /\ f.utf8)
    THEN {}
    ELSE { e.name : e \in entries }

\* the listing LocalCrates::new collects from the directory entries
Listing(entries) == { e.name : e \in { f \in entries : f.ok /\ f.utf8 } }

\* a planning pass that forgets the local inventory
PlanVersions_NoLocalFilter(found, l) ==
    SelectSeq(found, LAMBDA v : DownloadUrl(v) # None)

\* uses_insta filtered by the local inventory, then resolved to URLs
PlanVersions(found, l) ==
    SelectSeq(found, LAMBDA v : ~Contains(l, v) /\ DownloadUrl(v) # None)

PlanUrls(found, l) ==
    [k \in 1..Len(PlanVersions(found, l)) |-> DownloadUrl(PlanVersions(found, l)[k])]

\* every version record the registry serves
AllVersions(idx) == UNION { c.versions : c \in idx }

\* the version a download URL names
ServedVersion(idx, url) ==
    CHOOSE v \in AllVersions(idx) : DownloadUrl(v) = url

\* resp.get_url().rsplit_once('/').unwrap().1: the last segment of the URL
\* the response came from.  A registry that redirects the download URL sends
\* it to .../<name>/<name>-<version>.crate; one that serves the download URL
\* itself leaves the last segment of .../<name>/<version>/download.
FileName(idx, url, redirected) ==
    IF redirected THEN Key(ServedVersion(idx, url)) \o ".crate" ELSE "download"

\* the directory archive.unpack(&src_path) writes: a .crate archive holds
\* one top-level directory <name>-<version>
UnpackDir(idx, url) == Key(ServedVersion(idx, url))

\* a map with one entry set (created when missing)
Put(f, k, val) == [x \in (DOMAIN f) \cup {k} |-> IF x = k THEN val ELSE f[x]]

\* content of a file: empty after File::create, the body once io::copy
\* finished, a prefix of it when io::copy or unpack stopped early
Empty == ""
Body(url) == url
Part(url) == "part of " \o url

\* ------------------------------------------------- dialog.rs, pure parts
\* A template or a text is a sequence of tokens: "{" and "}" are the two
\* brace characters, every other token is a run of characters without a
\* brace (":?" is the run between the braces of a debug placeholder).

\* Option<T>
Some(x) == [some |-> TRUE, val |-> x]
Nothing == [some |-> FALSE, val |-> <<>>]

\* a run of output characters with the style they carry: the rendered
\* String is a sequence of such pieces
Piece(t, style) == [text |-> t, style |-> style]

\* the characters of a token sequence as one string
RECURSIVE Join(_)
Join(toks) == IF toks = <<>> THEN "" ELSE Head(toks) \o Join(Tail(toks))

\* position of the first token ch in toks at or after k, 0 when there is none
RECURSIVE FirstFrom(_, _, _)
FirstFrom(toks, ch, k) ==
    IF k > Len(toks) THEN 0
    ELSE IF toks[k] = ch THEN k
    ELSE FirstFrom(toks, ch, k + 1)

First(toks, ch) == FirstFrom(toks, ch, 1)

\* s.split('{'): the pieces of toks between the opening braces
RECURSIVE Split(_)
SplitAt(toks, open) ==
    IF open = 0
    THEN <<toks>>
    ELSE <<SubSeq(toks, 1, open - 1)>> \o Split(SubSeq(toks, open + 1, Len(toks)))

Split(toks) == SplitAt(toks, First(toks, "{"))

\* Segment::Text / Segment::Marker((disp_type, None))
Text(toks) == [kind |-> "Text", text |-> toks, disp_type |-> "none"]
Marker(disp_type) == [kind |-> "Marker", text |-> <<>>, disp_type |-> disp_type]

\* the match on within_marker
MarkerType(within) ==
    IF within = <<>> THEN "Regular"
    ELSE IF within = <<":?">> THEN "Debug"
    ELSE "none"

\* the `for split in splits` of try_new: None when a split has no '}'
\* (split_once('}')?) or an unknown marker, else segments with the Marker
\* and the Text of every split
RECURSIVE SplitLoop(_, _)
SplitMarker(splits, segments, disp_type, text) ==
    IF disp_type = "none" THEN Nothing
    ELSE SplitLoop(Tail(splits), segments \o <<Marker(disp_type), Text(text)>>)

SplitOnce(splits, segments, close) ==
    IF close = 0 THEN Nothing
    ELSE SplitMarker(splits, segments,
                     MarkerType(SubSeq(Head(splits), 1, close - 1)),
                     SubSeq(Head(splits), close + 1, Len(Head(splits))))

SplitLoop(splits, segments) ==
    IF splits = <<>> THEN Some(segments)
    ELSE SplitOnce(splits, segments, First(Head(splits), "}"))

\* FmtStr::try_new, after the split
Segments(splits) == SplitLoop(Tail(splits), <<Text(Head(splits))>>)

\* FmtStr::try_new
TryNew(s) == Segments(Split(s))

\* Disp::Usize / Str / Path / Error, with the value as its plain text
Disp(kind, val) == [kind |-> kind, val |-> val]

\* a Disp::fmt whose Debug arm formats like the Regular one
DispText_DebugAsRegular(disp, disp_type) == disp.val

\* Disp::fmt without the colour: to_string for Regular, format!("{:?}") for
\* Debug, which quotes a string and a path (values here hold no character
\* that Debug escapes), leaves a number as it is, and for an anyhow::Error
\* adds its chain of causes to the message, written as the suffix " (debug)"
DispText(disp, disp_type) ==
    IF disp_type = "Regular" THEN disp.val
    ELSE IF disp.kind \in {"Str", "Path"} THEN "\"" \o disp.val \o "\""
    ELSE IF disp.kind = "Error" THEN disp.val \o " (debug)"
    ELSE disp.val

\* the colour Disp::fmt picks when force_color is None
DispColor(disp) ==
    IF disp.kind = "Usize" THEN "blue"
    ELSE IF disp.kind = "Error" THEN "red"
    ELSE "cyan"

\* Disp::fmt
DispFmt(disp, disp_type) == Piece(DispText(disp, disp_type), DispColor(disp))

\* s.push_str(text)
PushStr(acc, text) == IF text = "" THEN acc ELSE Append(acc, Piece(text, "plain"))

\* the `for segment in segments` of try_fmt: None when a Marker finds no
\* value left (disps.next()?), else the string built and the values left
RECURSIVE FmtLoop(_, _, _)
FmtLoop(segments, disps, acc) ==
    IF segments = <<>>
    THEN Some([s |-> acc, disps |-> disps])
    ELSE IF Head(segments).kind = "Text"
    THEN FmtLoop(Tail(segments), disps, PushStr(acc, Join(Head(segments).text)))
    ELSE IF disps = <<>>
    THEN Nothing
    ELSE FmtLoop(Tail(segments), Tail(disps),
                 Append(acc, DispFmt(Head(disps), Head(segments).disp_type)))

\* an end of try_fmt without the check for values left over
FmtEnd_IgnoresLeftover(done) ==
    IF ~done.some THEN Nothing
    ELSE Some(done.val.s)

\* the end of try_fmt: if disps.next().is_some() { return None; } Some(s)
FmtEnd(done) ==
    IF ~done.some THEN Nothing
    ELSE IF done.val.disps # <<>> THEN Nothing
    ELSE Some(done.val.s)

\* FmtStr::try_fmt
TryFmt(segments, disps) == FmtEnd(FmtLoop(segments, disps, <<>>))

\* Dialog { indent }
Dialog(indent) == [indent |-> indent]

\* iter::repeat("  ").take(n).collect()
RECURSIVE IndentStr(_)
IndentStr(n) == IF n <= 0 THEN "" ELSE "  " \o IndentStr(n - 1)

\* Color::from(Level)
LevelColor(level) ==
    IF level = "Info" THEN "blue" ELSE IF level = "Warn" THEN "magenta" ELSE "red"

\* what a Dialog method does: it panics on an unwrap, or it returns a Dialog
\* and the line it rendered
Panicked == [ok |-> FALSE, sub |-> Dialog(0), line |-> <<>>]
Returned(sub, line) == [ok |-> TRUE, sub |-> sub, line |-> line]

\* FmtStr::try_new(msg).unwrap() then fmt_str.try_fmt(disps).unwrap():
\* Nothing stands for the panic of either unwrap
Unwrap2(fmt_str, disps) ==
    IF ~fmt_str.some THEN Nothing ELSE TryFmt(fmt_str.val, disps)

\* a msg_str_with whose sub-dialog stays at the indent of self
PrettyMsg_SameIndent(self, color, msg) ==
    IF ~msg.some THEN Panicked
    ELSE Returned(Dialog(self.indent),
                  <<Piece(IndentStr(self.indent - 1), "plain"),
                    Piece("->", color), Piece(" ", "plain")>> \o msg.val)

\* the rest of msg_str_with: format!("{}{} {}", indent_str, arrow, msg) and
\* the sub-dialog.  indent.saturating_add(1) is indent + 1 for every indent
\* below usize::MAX.
PrettyMsg(self, color, msg) ==
    IF ~msg.some THEN Panicked
    ELSE Returned(Dialog(self.indent + 1),
                  <<Piece(IndentStr(self.indent - 1), "plain"),
                    Piece("->", color), Piece(" ", "plain")>> \o msg.val)

\* Dialog::msg_str_with
MsgStrWithFn(self, color, msg, disps) ==
    PrettyMsg(self, color, Unwrap2(TryNew(msg), disps))

\* the rest of new_with: the message in bold, no arrow, a Dialog of indent 1
BoldMsg(msg) ==
    IF ~msg.some THEN Panicked ELSE Returned(Dialog(1), msg.val)

\* Dialog::new_with
NewWithFn(msg, disps) == BoldMsg(Unwrap2(TryNew(msg), disps))

\* the characters of a rendered line, styles dropped
RECURSIVE PlainText(_)
PlainText(pieces) ==
    IF pieces = <<>> THEN "" ELSE Head(pieces).text \o PlainText(Tail(pieces))

\* worker threads of the rayon pool: num_threads(0) means one per CPU
Workers(t) == 1..(IF t = 0 THEN NumCpus ELSE t)

\* ------------------------------------------------- templates of main
\* (the backquotes around insta are written as ' here)
T_Found == <<"Found ", "{", "}", " crates using 'insta'!">>
T_Scanning == <<"Scanning locally downloaded crates...">>
T_NoCrates == <<"No crates to download!">>
T_ToDownload == <<"{", "}", " crates to download">>
T_DryRun == <<"Finished dry run!">>
T_DownloadingCrates == <<"Downloading crates...">>
T_Downloading == <<"Downloading ", "{", "}", "...">>
T_ErrDownloading == <<"Error downloading file: ", "{", "}", ", Err: ", "{", "}">>
T_FailedCreating == <<"Failed creating file: ", "{", "}", ", Err: ", "{", "}">>
T_FailedDownloading == <<"Failed downloading file: ", "{", "}", ", Err: ", "{", "}">>
T_FailedOpening == <<"Failed opening file: ", "{", "}", ", Err: ", "{", "}">>
T_Extracted == <<"Downloaded and extracted ", "{", "}">>
T_FailedExtracting == <<"Failed extracting file: ", "{", "}", ", Err: ", "{", "}">>
T_FailedPulling == <<"Failed pulling ", "{", "}", " crates">>

MainTemplates == { T_Found, T_Scanning, T_NoCrates, T_ToDownload, T_DryRun,
                   T_DownloadingCrates, T_Downloading, T_ErrDownloading,
                   T_FailedCreating, T_FailedDownloading, T_FailedOpening,
                   T_Extracted, T_FailedExtracting, T_FailedPulling }

\* disps![n] for a usize
Count(n) == Disp("Usize", ToString(n))

\* cache_path.join(&file_name)
DlPath(file_name) == "registry/cache/" \o file_name

\* ------------------------------------------ inputs of the Dialog calls
MaxTmplLen == 4     \* tokens of a template
MaxDisps == 2       \* values handed to one call

BoundedSeqs(S, n) == UNION { [1..k -> S] : k \in 0..n }

TemplateTokens == { "a", "{", "}", ":?" }

Templates == BoundedSeqs(TemplateTokens, MaxTmplLen)
                \cup MainTemplates \cup { <<"Found ", "{", "}", " crates">> }

DispUniverse == { Disp("Usize", "7"), Disp("Str", "s"),
                  Disp("Path", "some/path"), Disp("Error", "e") }

\* a Dialog that was not created yet
NoDialog == Dialog(0)

\* a call made on the Dialog API: which method, on which Dialog, with which
\* colour, template and values
Call(op, self, color, msg, disps) ==
    [op |-> op, self |-> self, color |-> color, msg |-> msg, disps |-> disps]

NoCall == Call("none", NoDialog, "none", <<>>, <<>>)

\* a line on the terminal: its characters, the colour of its arrow ("none"
\* for the bold line of Dialog::new) and the indent_str in front of the arrow
Printed(r, arrow) ==
    [text |-> PlainText(r.line), arrow |-> arrow,
     indent |-> IF arrow = "none" THEN "" ELSE r.line[1].text]

\* --------------------------------------------------------------- state
VARIABLES
    pc,                 \* position in main
    dry_run, threads,   \* cli::Args
    index,              \* crates of the registry index
    redirects,          \* the registry answers a download URL with a redirect
    src_dir,            \* entries of registry/src/<index> at start
    scanned,            \* names of the crates the parallel scan has visited
    uses_insta,         \* Vec of the dependents found
    listing,            \* LocalCrates::listing
    download_urls,      \* the plan
    i,                  \* targets the fetch loop has finished
    num_install_errors,
    ran,                \* stages executed for the current target
    outcomes,           \* one record per finished target
    requests,           \* URLs of the GETs issued, in order
    slept,              \* throttle sleep since the last GET (or the start)
    cache,              \* registry/cache/<index>: file name -> content
    src,                \* registry/src/<index>: directory name -> content
    warned,             \* the end-of-run warning was printed
    result,             \* what main returned
    stderr,             \* the lines printed on the terminal
    scan_dialog, full_dl_dialog, crate_dl_dialog,   \* the Dialogs of main
    call,               \* a call of the Dialog API on its own
    ret                 \* <<>> until that call ended, then what it did

vars == <<pc, dry_run, threads, index, redirects, src_dir, scanned, uses_insta, listing,
          download_urls, i, num_install_errors, ran, outcomes,
          requests, slept, cache, src, warned, result,
          stderr, scan_dialog, full_dl_dialog, crate_dl_dialog, call, ret>>

args == <<dry_run, threads, index, redirects, src_dir>>
scan == <<scanned, uses_insta>>
plan == <<listing, download_urls>>
loop == <<i, num_install_errors, ran, outcomes, requests, slept, warned>>
files == <<cache, src>>
dialogs == <<scan_dialog, full_dl_dialog, crate_dl_dialog>>
api == <<call, ret>>

Pre == "pre"        \* content of a file that predates the run

Init ==
    /\ pc = "pool"
    /\ dry_run \in BOOLEAN
    /\ threads \in {0, MaxThreads}
    /\ index \in BoundedSubsets(CrateUniverse, MaxCrates)
    /\ redirects \in BOOLEAN
    /\ src_dir \in BoundedSubsets(EntryUniverse, MaxLocal)
    /\ scanned = {}
    /\ uses_insta = <<>>
    /\ listing = {}
    /\ download_urls = <<>>
    /\ i = 0
    /\ num_install_errors = 0
    /\ ran = <<>>
    /\ outcomes = <<>>
    /\ requests = <<>>
    /\ slept = 0
    /\ \E cached \in BoundedSubsets(CacheUniverse, MaxLocal - Cardinality(src_dir)) :
          cache = [f \in cached |-> Pre]
    /\ src = [n \in { e.name : e \in src_dir } |-> Pre]
    /\ warned = FALSE
    /\ result = "running"
    /\ stderr = <<>>
    /\ scan_dialog = NoDialog
    /\ full_dl_dialog = NoDialog
    /\ crate_dl_dialog = NoDialog
    /\ call = NoCall
    /\ ret = <<>>

\* A call of a Dialog method in main, r being what the method did: its line
\* is printed, the Dialog it returns is bound to the local named by slot and
\* main goes on at next_pc; or the unwrap() inside the method panics.
Announce(r, arrow, next_pc, next_result, slot) ==
    IF r.ok
    THEN /\ stderr' = Append(stderr, Printed(r, arrow))
         /\ scan_dialog' = IF slot = "scan_dialog" THEN r.sub ELSE scan_dialog
         /\ full_dl_dialog' = IF slot = "full_dl_dialog" THEN r.sub ELSE full_dl_dialog
         /\ crate_dl_dialog' = IF slot = "crate_dl_dialog" THEN r.sub ELSE crate_dl_dialog
         /\ pc' = next_pc
         /\ result' = next_result
    ELSE /\ pc' = "panic"
         /\ result' = "panicked"
         /\ UNCHANGED <<stderr, dialogs>>

\* main goes on without a Dialog call
Goto(next_pc, next_result) ==
    /\ pc' = next_pc
    /\ result' = next_result
    /\ UNCHANGED <<stderr, dialogs>>

\* a `?` that fails: main returns Err
Fatal(cause) == Goto("fatal", cause)

\* ------------------------------------------------------------ discovery
\* ThreadPoolBuilder::new().num_threads(threads).build_global()?
BuildPool ==
    /\ pc = "pool"
    /\ \/ Goto("index", result)
       \/ Fatal("Err: thread pool")
    /\ UNCHANGED <<args, api, scan, plan, loop, files>>

\* Index::new_cargo_default()?
OpenIndex ==
    /\ pc = "index"
    /\ \/ Goto("scan", result)
       \/ Fatal("Err: index")
    /\ UNCHANGED <<args, api, scan, plan, loop, files>>

\* one worker of crates_parallel() takes one crate through filter_map, map
\* and filter, and adds it to the collected Vec when it passes
ScanCrate(w, c) ==
    /\ pc = "scan"
    /\ w \in Workers(threads)
    /\ c \in index
    /\ c.name \notin scanned
    /\ scanned' = scanned \cup {c.name}
    /\ uses_insta' = IF c.load_ok /\ UsesInsta(HighestVersion(c))
                     THEN Append(uses_insta, HighestVersion(c))
                     ELSE uses_insta
    /\ UNCHANGED <<pc, result, args, api, plan, loop, files, stderr, dialogs>>

\* Dialog::raw_with_indent(1).info_with("Found {} crates using `insta`!", ..)
FoundReport ==
    MsgStrWithFn(Dialog(1), LevelColor("Info"), T_Found, <<Count(Len(uses_insta))>>)

\* .collect() returns once every crate was visited; spinner.finish() and the
\* "Found {} crates" line.  The pool is idle from here on and threads is
\* not read again: the model forgets it.
ScanDone ==
    /\ pc = "scan"
    /\ scanned = { c.name : c \in index }
    /\ Announce(FoundReport, LevelColor("Info"), "local", result, "none")
    /\ threads' = 0
    /\ UNCHANGED <<dry_run, index, redirects, src_dir, api, scan, plan, loop, files>>

\* let scan_dialog = Dialog::new("Scanning locally downloaded crates...");
\* LocalCrates::new()?  CargoRegistry::new()? then registry.src().read_dir()?
ScanLocal ==
    /\ pc = "local"
    /\ \/ /\ Announce(NewWithFn(T_Scanning, <<>>), "none", "config", result, "scan_dialog")
          /\ listing' = IF pc' = "config" THEN Listing(src_dir) ELSE listing
       \/ /\ Announce(NewWithFn(T_Scanning, <<>>), "none", "fatal", "Err: registry root",
                      "scan_dialog")
          /\ UNCHANGED listing
       \/ /\ Announce(NewWithFn(T_Scanning, <<>>), "none", "fatal", "Err: src listing",
                      "scan_dialog")
          /\ UNCHANGED listing
    /\ UNCHANGED <<args, api, scan, download_urls, loop, files>>

\* scan_dialog.info("No crates to download!") or
\* scan_dialog.info_with("{} crates to download", ..)
PlanReport(urls) ==
    IF Len(urls) = 0
    THEN MsgStrWithFn(scan_dialog, LevelColor("Info"), T_NoCrates, <<>>)
    ELSE MsgStrWithFn(scan_dialog, LevelColor("Info"), T_ToDownload, <<Count(Len(urls))>>)

\* a planning pass that fails the run when a URL does not resolve
Plan_ErrOnUnresolved ==
    /\ pc = "config"
    /\ \/ /\ \A k \in 1..Len(uses_insta) :
                Contains(listing, uses_insta[k]) \/ DownloadUrl(uses_insta[k]) # None
          /\ download_urls' = PlanUrls(uses_insta, listing)
          /\ uses_insta' = <<>>
          /\ Announce(PlanReport(download_urls'), LevelColor("Info"), "planned", result, "none")
       \/ /\ \E k \in 1..Len(uses_insta) :
                ~Contains(listing, uses_insta[k]) /\ DownloadUrl(uses_insta[k]) = None
          /\ Fatal("Err: download url")
          /\ UNCHANGED <<download_urls, uses_insta>>
       \/ /\ Fatal("Err: index config")
          /\ UNCHANGED <<download_urls, uses_insta>>
    /\ UNCHANGED <<args, api, scanned, listing, loop, files>>

\* index.index_config()? and the planning pass, which consumes uses_insta
\* (uses_insta.into_iter()), then the report of the plan size
Plan ==
    /\ pc = "config"
    /\ \/ /\ download_urls' = PlanUrls(uses_insta, listing)
          /\ uses_insta' = <<>>
          /\ Announce(PlanReport(download_urls'), LevelColor("Info"), "planned", result, "none")
       \/ /\ Fatal("Err: index config")
          /\ UNCHANGED <<download_urls, uses_insta>>
    /\ UNCHANGED <<args, api, scanned, listing, loop, files>>

\* a dry run that only stops when there is nothing to download
DryRunCheck_OnlyWhenEmpty ==
    /\ pc = "planned"
    /\ IF dry_run /\ Len(download_urls) = 0
       THEN Announce(NewWithFn(T_DryRun, <<>>), "none", "done", "Ok", "none")
       ELSE Goto("setup", result)
    /\ UNCHANGED <<args, api, scan, plan, loop, files>>

\* if dry_run { Dialog::new("Finished dry run!"); return Ok(()); }
DryRunCheck ==
    /\ pc = "planned"
    /\ IF dry_run
       THEN Announce(NewWithFn(T_DryRun, <<>>), "none", "done", "Ok", "none")
       ELSE Goto("setup", result)
    /\ UNCHANGED <<args, api, scan, plan, loop, files>>

\* let full_dl_dialog = Dialog::new("Downloading crates..."), then
\* CargoRegistry::new()? for cache_path and src_path, the agent, the counter
Setup ==
    /\ pc = "setup"
    /\ \/ Announce(NewWithFn(T_DownloadingCrates, <<>>), "none", "loop", result,
                   "full_dl_dialog")
       \/ Announce(NewWithFn(T_DownloadingCrates, <<>>), "none", "fatal",
                   "Err: registry root", "full_dl_dialog")
    /\ UNCHANGED <<args, api, scan, plan, loop, files>>

\* ----------------------------------------------------------- fetch loop
Stages == <<"throttle", "network", "file-create", "file-write", "file-open", "extract">>

\* one executed stage of the current target and whether it succeeded
Ran(stage, ok) == [stage |-> stage, ok |-> ok]

CurrentUrl == download_urls[i + 1]

\* the template of the warn_with in the Err arm of a stage
FailTemplate(stage) ==
    IF stage = "network" THEN T_ErrDownloading
    ELSE IF stage = "file-create" THEN T_FailedCreating
    ELSE IF stage = "file-write" THEN T_FailedDownloading
    ELSE IF stage = "file-open" THEN T_FailedOpening
    ELSE T_FailedExtracting

\* the disps![..] of that warn_with: url, dl_path or file_name, then err(e)
FailDisps(stage) ==
    <<IF stage = "network" THEN Disp("Str", CurrentUrl)
      ELSE IF stage = "file-write"
      THEN Disp("Str", FileName(index, CurrentUrl, redirects))
      ELSE Disp("Path", DlPath(FileName(index, CurrentUrl, redirects))),
      Disp("Error", stage \o " error")>>

\* crate_dl_dialog.warn_with(..) of a stage
FailReport(stage) ==
    MsgStrWithFn(crate_dl_dialog, LevelColor("Warn"), FailTemplate(stage), FailDisps(stage))

\* crate_dl_dialog.msg_str_with(Color::Green, "Downloaded and extracted {}", ..)
SuccessReport ==
    MsgStrWithFn(crate_dl_dialog, "green", T_Extracted,
                 <<Disp("Str", FileName(index, CurrentUrl, redirects))>>)

\* a file-open branch that forgets num_install_errors += 1
FailTarget_UncountedOpen(stage) ==
    /\ Announce(FailReport(stage), LevelColor("Warn"), "loop", result, "none")
    /\ IF pc' = "panic"
       THEN UNCHANGED <<outcomes, num_install_errors, i>>
       ELSE /\ outcomes' = Append(outcomes, [url |-> CurrentUrl, status |-> "Failed",
                                             stage |-> stage, ran |-> ran'])
            /\ num_install_errors' = IF stage = "file-open" THEN num_install_errors
                                                            ELSE num_install_errors + 1
            /\ i' = i + 1

\* a `break` in place of the `continue`
FailTarget_Break(stage) ==
    /\ Announce(FailReport(stage), LevelColor("Warn"), "loop", result, "none")
    /\ IF pc' = "panic"
       THEN UNCHANGED <<outcomes, num_install_errors, i>>
       ELSE /\ outcomes' = Append(outcomes, [url |-> CurrentUrl, status |-> "Failed",
                                             stage |-> stage, ran |-> ran'])
            /\ num_install_errors' = num_install_errors + 1
            /\ i' = Len(download_urls)

\* the Err arm of a stage: warn_with, num_install_errors += 1, continue
FailTarget(stage) ==
    /\ Announce(FailReport(stage), LevelColor("Warn"), "loop", result, "none")
    /\ IF pc' = "panic"
       THEN UNCHANGED <<outcomes, num_install_errors, i>>
       ELSE /\ outcomes' = Append(outcomes, [url |-> CurrentUrl, status |-> "Failed",
                                             stage |-> stage, ran |-> ran'])
            /\ num_install_errors' = num_install_errors + 1
            /\ i' = i + 1

\* the Ok arm of unpack: "Downloaded and extracted {}", the end of the body
SucceedTarget ==
    /\ Announce(SuccessReport, "green", "loop", result, "none")
    /\ IF pc' = "panic"
       THEN UNCHANGED <<outcomes, num_install_errors, i>>
       ELSE /\ outcomes' = Append(outcomes, [url |-> CurrentUrl, status |-> "Downloaded",
                                             stage |-> "none", ran |-> ran'])
            /\ num_install_errors' = num_install_errors
            /\ i' = i + 1

NextStage(p) ==
    /\ Goto(p, result)
    /\ UNCHANGED <<outcomes, num_install_errors, i>>

\* full_dl_dialog.info_str_with("Downloading {}...", disps![url])
StartReport ==
    MsgStrWithFn(full_dl_dialog, LevelColor("Info"), T_Downloading,
                 <<Disp("Str", CurrentUrl)>>)

\* a loop that sleeps only after a target that got through
Throttle_SkipAfterFailure ==
    /\ pc = "loop"
    /\ i < Len(download_urls)
    /\ slept' = IF i > 0 /\ outcomes[i].status = "Failed" THEN slept ELSE ThrottleSecs
    /\ ran' = <<Ran("throttle", TRUE)>>
    /\ Announce(StartReport, LevelColor("Info"), "get", result, "crate_dl_dialog")
    /\ UNCHANGED <<args, api, scan, plan, files, i, num_install_errors,
                   outcomes, requests, warned>>

\* for url in download_urls.iter() { sleep(Duration::from_secs(1)); then the
\* "Downloading {}..." line, which gives the target its crate_dl_dialog
Throttle ==
    /\ pc = "loop"
    /\ i < Len(download_urls)
    /\ slept' = ThrottleSecs
    /\ ran' = <<Ran("throttle", TRUE)>>
    /\ Announce(StartReport, LevelColor("Info"), "get", result, "crate_dl_dialog")
    /\ UNCHANGED <<args, api, scan, plan, files, i, num_install_errors,
                   outcomes, requests, warned>>

\* agent.get(url).call()
Fetch ==
    /\ pc = "get"
    /\ requests' = Append(requests, CurrentUrl)
    /\ slept' = 0
    /\ \/ ran' = Append(ran, Ran("network", TRUE)) /\ NextStage("create")
       \/ ran' = Append(ran, Ran("network", FALSE)) /\ FailTarget("network")
    /\ UNCHANGED <<args, api, scan, plan, files, warned>>

\* a loop that resolves the cache path with `?` once the response is there
CreateFile_Fatal ==
    /\ pc = "create"
    /\ \/ /\ cache' = Put(cache, FileName(index, CurrentUrl, redirects), Empty)
          /\ ran' = Append(ran, Ran("file-create", TRUE))
          /\ NextStage("write")
       \/ /\ UNCHANGED cache
          /\ ran' = Append(ran, Ran("file-create", FALSE))
          /\ Fatal("Err: registry root")
          /\ UNCHANGED <<outcomes, num_install_errors, i>>
    /\ UNCHANGED <<args, api, scan, plan, src, requests, slept, warned>>

\* File::create(&dl_path): creates the file, or truncates the one there
CreateFile ==
    /\ pc = "create"
    /\ \/ /\ cache' = Put(cache, FileName(index, CurrentUrl, redirects), Empty)
          /\ ran' = Append(ran, Ran("file-create", TRUE))
          /\ NextStage("write")
       \/ /\ UNCHANGED cache
          /\ ran' = Append(ran, Ran("file-create", FALSE))
          /\ FailTarget("file-create")
    /\ UNCHANGED <<args, api, scan, plan, src, requests, slept, warned>>

\* io::copy(&mut reader, &mut dl_file)
WriteFile ==
    /\ pc = "write"
    /\ \/ /\ cache' = Put(cache, FileName(index, CurrentUrl, redirects), Body(CurrentUrl))
          /\ ran' = Append(ran, Ran("file-write", TRUE))
          /\ NextStage("open")
       \/ /\ cache' = Put(cache, FileName(index, CurrentUrl, redirects), Part(CurrentUrl))
          /\ ran' = Append(ran, Ran("file-write", FALSE))
          /\ FailTarget("file-write")
    /\ UNCHANGED <<args, api, scan, plan, src, requests, slept, warned>>

\* File::open(&dl_path)
OpenFile ==
    /\ pc = "open"
    /\ \/ ran' = Append(ran, Ran("file-open", TRUE)) /\ NextStage("extract")
       \/ ran' = Append(ran, Ran("file-open", FALSE)) /\ FailTarget("file-open")
    /\ UNCHANGED <<args, api, scan, plan, files, requests, slept, warned>>

\* an unpack whose Err arm reports success
Extract_IgnoresFailure ==
    /\ pc = "extract"
    /\ \/ /\ src' = Put(src, UnpackDir(index, CurrentUrl), Body(CurrentUrl))
          /\ ran' = Append(ran, Ran("extract", TRUE))
          /\ SucceedTarget
       \/ /\ \/ UNCHANGED src
             \/ src' = Put(src, UnpackDir(index, CurrentUrl), Part(CurrentUrl))
          /\ ran' = Append(ran, Ran("extract", FALSE))
          /\ SucceedTarget
    /\ UNCHANGED <<args, api, scan, plan, cache, requests, slept, warned>>

\* Archive::new(GzDecoder::new(..)).unpack(&src_path)
Extract ==
    /\ pc = "extract"
    /\ \/ /\ src' = Put(src, UnpackDir(index, CurrentUrl), Body(CurrentUrl))
          /\ ran' = Append(ran, Ran("extract", TRUE))
          /\ SucceedTarget
       \/ /\ \/ UNCHANGED src
             \/ src' = Put(src, UnpackDir(index, CurrentUrl), Part(CurrentUrl))
          /\ ran' = Append(ran, Ran("extract", FALSE))
          /\ FailTarget("extract")
    /\ UNCHANGED <<args, api, scan, plan, cache, requests, slept, warned>>

\* full_dl_dialog.warn_with("Failed pulling {} crates", disps![num_install_errors])
EndReport ==
    MsgStrWithFn(full_dl_dialog, LevelColor("Warn"), T_FailedPulling,
                 <<Count(num_install_errors)>>)

\* an end of run that turns a run without any success into an error
Finish_ErrWhenAllFailed ==
    /\ pc = "loop"
    /\ i = Len(download_urls)
    /\ IF num_install_errors = 0
       THEN Goto("done", "Ok") /\ UNCHANGED warned
       ELSE /\ IF num_install_errors = i
               THEN Announce(EndReport, LevelColor("Warn"), "fatal",
                             "Err: nothing downloaded", "none")
               ELSE Announce(EndReport, LevelColor("Warn"), "done", "Ok", "none")
            /\ warned' = (pc' # "panic")
    /\ UNCHANGED <<args, api, scan, plan, files, i, num_install_errors, ran,
                   outcomes, requests, slept>>

\* if num_install_errors != 0 { warn_with("Failed pulling {} crates") }  Ok(())
Finish ==
    /\ pc = "loop"
    /\ i = Len(download_urls)
    /\ IF num_install_errors = 0
       THEN Goto("done", "Ok") /\ UNCHANGED warned
       ELSE /\ Announce(EndReport, LevelColor("Warn"), "done", "Ok", "none")
            /\ warned' = (pc' # "panic")
    /\ UNCHANGED <<args, api, scan, plan, files, i, num_install_errors, ran,
                   outcomes, requests, slept>>

Next ==
    \/ BuildPool
    \/ OpenIndex
    \/ \E w \in 1..(MaxThreads + NumCpus) : \E c \in CrateUniverse : ScanCrate(w, c)
    \/ ScanDone
    \/ ScanLocal
    \/ Plan
    \/ DryRunCheck
    \/ Setup
    \/ Throttle
    \/ Fetch
    \/ CreateFile
    \/ WriteFile
    \/ OpenFile
    \/ Extract
    \/ Finish

Spec == Init /\ [][Next]_vars

\* ------------------------------------------- the Dialog API on its own
\* One call of a Dialog method with a template and values from the bounded
\* sets above; main stays where it is.
InitFmt ==
    /\ pc = "dialog"
    /\ dry_run = FALSE
    /\ threads = 0
    /\ index = {}
    /\ redirects = FALSE
    /\ src_dir = {}
    /\ scanned = {}
    /\ uses_insta = <<>>
    /\ listing = {}
    /\ download_urls = <<>>
    /\ i = 0
    /\ num_install_errors = 0
    /\ ran = <<>>
    /\ outcomes = <<>>
    /\ requests = <<>>
    /\ slept = 0
    /\ cache = [f \in {} |-> Pre]
    /\ src = [n \in {} |-> Pre]
    /\ warned = FALSE
    /\ result = "running"
    /\ stderr = <<>>
    /\ scan_dialog = NoDialog
    /\ full_dl_dialog = NoDialog
    /\ crate_dl_dialog = NoDialog
    /\ \E m \in Templates, d \in BoundedSeqs(DispUniverse, MaxDisps) :
          \/ call = Call("new_with", NoDialog, "none", m, d)
          \/ \E n \in {1, 2}, l \in {"Info", "Warn"} :
                call = Call("msg_with", Dialog(n), LevelColor(l), m, d)
          \/ \E n \in {1, 2} :
                call = Call("msg_str_with", Dialog(n), "green", m, d)
    /\ ret = <<>>

\* Dialog::new_with(msg, disps): eprintln! of the bold message
NewWith ==
    /\ call.op = "new_with"
    /\ ret = <<>>
    /\ LET r == NewWithFn(call.msg, call.disps)
       IN  /\ ret' = <<r>>
           /\ stderr' = IF r.ok THEN Append(stderr, Printed(r, "none")) ELSE stderr
    /\ UNCHANGED <<pc, result, args, scan, plan, loop, files, dialogs, call>>

\* self.msg_with(color, msg, disps): msg_str_with, eprintln!, the sub-dialog
MsgWith ==
    /\ call.op = "msg_with"
    /\ ret = <<>>
    /\ LET r == MsgStrWithFn(call.self, call.color, call.msg, call.disps)
       IN  /\ ret' = <<r>>
           /\ stderr' = IF r.ok THEN Append(stderr, Printed(r, call.color)) ELSE stderr
    /\ UNCHANGED <<pc, result, args, scan, plan, loop, files, dialogs, call>>

\* self.msg_str_with(color, msg, disps): nothing is printed
MsgStrWith ==
    /\ call.op = "msg_str_with"
    /\ ret = <<>>
    /\ ret' = <<MsgStrWithFn(call.self, call.color, call.msg, call.disps)>>
    /\ UNCHANGED <<pc, result, args, scan, plan, loop, files, dialogs, call, stderr>>

NextFmt ==
    \/ NewWith
    \/ MsgWith
    \/ MsgStrWith

SpecFmt == InitFmt /\ [][NextFmt]_vars

\* ================================================================ claims
\* positions of main at which the plan has been computed
AfterPlan == {"planned", "setup", "loop", "get", "create", "write", "open",
              "extract", "done"}

\* positions of main inside the fetch phase
FetchPcs == {"loop", "get", "create", "write", "open", "extract"}

\* the records the scan looks at: the highest version of every crate that loads
Records == { HighestVersion(c) : c \in { k \in index : k.load_ok } }

Dependents == { v \in Records : "insta" \in v.deps }

LocalKeys == { e.name : e \in { f \in src_dir : f.ok /\ f.utf8 } }

IsLocal(v) == (v.name \o "-" \o v.vers) \in LocalKeys

UrlOf(v) == "dl/" \o v.name \o "/" \o v.vers \o "/download"

\* the records behind the planned URLs
Planned == { v \in AllVersions(index) : \E k \in 1..Len(download_urls) : download_urls[k] = UrlOf(v) }

\* C1 as stated: the planned fetch set is exactly the dependents minus the
\* records whose name-version key is in the local inventory.
C1_PlanIsDependentsMinusLocal ==
    pc \in AfterPlan => Planned = { v \in Dependents : ~IsLocal(v) }

\* C1 amended: the planned fetch set is the dependents minus the records
\* whose key is in the local inventory minus the records for which no
\* download URL resolves, each planned once, whatever the order in which the
\* workers visited the index and however many workers there were.
C1_PlanIsResolvableDependentsMinusLocal ==
    pc \in AfterPlan =>
        /\ Planned = { v \in Dependents : ~IsLocal(v) /\ v.has_dl }
        /\ Len(download_urls) = Cardinality({ v \in Dependents : ~IsLocal(v) /\ v.has_dl })

C1_Witness ==
    /\ pc = "planned"
    /\ Len(download_urls) >= 1
    /\ \E v \in Dependents : IsLocal(v)
    /\ \E v \in Dependents : ~IsLocal(v) /\ ~v.has_dl

\* C2: a GET is only issued right after a throttle sleep of the full interval
\* that started after the previous GET (or after the start, for the first
\* one), also when the previous target failed.
C2_EveryRequestThrottled ==
    [][Len(requests') > Len(requests) =>
          /\ slept >= ThrottleSecs
          /\ ran = <<Ran("throttle", TRUE)>>
          /\ slept' = 0]_vars

C2_Witness ==
    /\ Len(requests) = 2
    /\ Len(outcomes) = 1
    /\ outcomes[1].status = "Failed"
    /\ pc = "create"

\* C3: the GETs issued are the planned URLs in plan order, none twice, and a
\* finished non-dry run has issued one for every planned target whatever the
\* outcomes of the earlier ones.
C3_EachTargetOnceInOrder ==
    /\ Len(requests) <= Len(download_urls)
    /\ \A k \in 1..Len(requests) : requests[k] = download_urls[k]
    /\ \A j, k \in 1..Len(requests) : j # k => requests[j] # requests[k]
    /\ (pc = "done" /\ ~dry_run) => Len(requests) = Len(download_urls)

C3_Witness ==
    /\ pc = "done"
    /\ Len(requests) = 3
    /\ outcomes[1].status = "Failed"
    /\ outcomes[2].stage = "extract"
    /\ outcomes[3].status = "Downloaded"

\* C4: with the dry-run flag set no request is issued and no file is written,
\* the fetch loop is never entered, and the run ends with Ok right after the
\* plan size was reported, for every plan.
C4_DryRunIssuesNoRequest ==
    [][dry_run =>
          /\ requests' = <<>>
          /\ pc' \notin FetchPcs \cup {"setup"}
          /\ cache' = cache /\ src' = src
          /\ (pc = "planned" => pc' = "done" /\ result' = "Ok")]_vars

C4_Witness ==
    /\ dry_run
    /\ pc = "done"
    /\ Len(download_urls) >= 2
    /\ requests = <<>>
\* the number of finished targets that did not reach Success
FailedCount == Cardinality({ j \in 1..Len(outcomes) : outcomes[j].status # "Downloaded" })

\* C5: the failure count is the number of finished targets that did not reach
\* Success, each counted once whichever stage failed; at the end of a non-dry
\* run every planned target is finished and the warning was printed iff the
\* count is not zero.
C5_FailureCountAndWarning ==
    /\ num_install_errors = FailedCount
    /\ (pc = "done" /\ ~dry_run) =>
          /\ Len(outcomes) = Len(download_urls)
          /\ warned <=> (num_install_errors # 0)
    /\ pc # "done" => ~warned

\* three dependents, one of them local, two planned, one of the two failed
C5_Witness ==
    /\ pc = "done"
    /\ Cardinality(Dependents) = 3
    /\ Cardinality({ v \in Dependents : IsLocal(v) }) = 1
    /\ Len(download_urls) = 2
    /\ num_install_errors = 1
    /\ warned
    /\ \E j \in 1..2 : /\ outcomes[j].status = "Downloaded"
                       /\ UnpackDir(index, outcomes[j].url) \in DOMAIN src

\* the first k stages, all successful / the k-th one failed
AllOk(k) == [j \in 1..k |-> [stage |-> Stages[j], ok |-> TRUE]]
FailedAt(k) == [j \in 1..k |-> [stage |-> Stages[j], ok |-> j < k]]

PcStage == [get |-> 1, create |-> 2, write |-> 3, open |-> 4, extract |-> 5]

\* C6: the stages of a target run in the order throttle, fetch, file-create,
\* file-write, file-open, extract; Downloaded is recorded only after all six
\* succeeded, and a target whose stage k failed has exactly one outcome,
\* Failed for that stage, with no stage after k executed.
C6_StagesInOrderFirstFailureEnds ==
    /\ Len(outcomes) = i
    /\ \A j \in 1..Len(outcomes) :
          /\ outcomes[j].url = download_urls[j]
          /\ \/ /\ outcomes[j].status = "Downloaded"
                /\ outcomes[j].stage = "none"
                /\ outcomes[j].ran = AllOk(6)
             \/ /\ outcomes[j].status = "Failed"
                /\ \E k \in 2..6 : /\ outcomes[j].stage = Stages[k]
                                   /\ outcomes[j].ran = FailedAt(k)
    /\ pc \in DOMAIN PcStage => ran = AllOk(PcStage[pc])

C6_Witness ==
    /\ Len(outcomes) = 3
    /\ outcomes[1].stage = "file-open"
    /\ outcomes[2].status = "Downloaded"
    /\ outcomes[3].stage = "file-create"

PreconditionErrors == {"Err: thread pool", "Err: index", "Err: registry root",
                       "Err: src listing", "Err: index config"}

\* C7: from the fetch loop on, the run can only end with Ok, whatever the
\* per-target outcomes; main returns an error only from the checks made
\* before the loop (thread pool, index, registry root, src listing, index
\* configuration), before any request was issued.
C7_TargetFailuresNeverFatal ==
    [][/\ pc \in FetchPcs => (pc' \in FetchPcs \cup {"done"} /\ result' \in {"running", "Ok"})
       /\ pc' = "done" => result' = "Ok"
       /\ pc' = "fatal" => /\ pc \in {"pool", "index", "local", "config", "setup"}
                           /\ result' \in PreconditionErrors
                           /\ requests = <<>>]_vars

C7_Witness ==
    /\ pc = "done"
    /\ result = "Ok"
    /\ Len(outcomes) = 3
    /\ \A j \in 1..3 : outcomes[j].status = "Failed"
    /\ { outcomes[j].stage : j \in 1..3 } = {"network", "file-write", "extract"}

\* the dependents for which a download URL resolves
Resolvable == { v \in Dependents : v.has_dl }

InPlan(v) == \E k \in 1..Len(download_urls) : download_urls[k] = UrlOf(v)

\* C8: a dependent (with a resolvable URL) is left out of the plan iff the
\* string name-version is an element of the local listing: an entry of the
\* same name with another version string does not filter it out, the exact
\* entry always does.
C8_MembershipIsExactKey ==
    pc \in AfterPlan =>
        \A v \in Resolvable : InPlan(v) <=> (v.name \o "-" \o v.vers) \notin listing

\* b 2 is planned although b-1 is local
C8_Witness ==
    /\ pc = "planned"
    /\ "b-1" \in listing
    /\ \E v \in Resolvable : v.name = "b" /\ v.vers = "2" /\ InPlan(v)
\* C9 as stated: two records whose (name, version) pairs differ never get the
\* same inventory key.
C9_DistinctPairsDistinctKeys ==
    \A j, k \in 1..Len(uses_insta) :
        (uses_insta[j].name # uses_insta[k].name \/ uses_insta[j].vers # uses_insta[k].vers)
            => Key(uses_insta[j]) # Key(uses_insta[k])

\* C10 as stated: no step of the fetch loop changes the cached archive or the
\* extracted directory of a target that reached Success before.
C10_SuccessfulTargetsFilesIntact ==
    [][\A j \in 1..Len(outcomes) :
          outcomes[j].status = "Downloaded" =>
              /\ cache'[FileName(index, outcomes[j].url, redirects)]
                    = cache[FileName(index, outcomes[j].url, redirects)]
              /\ src'[UnpackDir(index, outcomes[j].url)]
                    = src[UnpackDir(index, outcomes[j].url)]]_vars
\* C11 as stated: the fetch phase never truncates, overwrites or removes a
\* file that was in the cache directory or the source tree before the run.
C11_ExistingFilesUntouched ==
    [][/\ \A f \in DOMAIN cache : cache[f] = Pre => (f \in DOMAIN cache' /\ cache'[f] = Pre)
       /\ \A n \in DOMAIN src : src[n] = Pre => (n \in DOMAIN src' /\ src'[n] = Pre)]_vars
\* ---------------------------------------------------- templates, as read
\* the braces of a template, in order
Braces(t) == SelectSeq(t, LAMBDA x : x \in {"{", "}"})

\* every opening brace is closed by the next brace and every closing brace
\* closes the brace before it
Balanced(t) ==
    /\ Len(Braces(t)) % 2 = 0
    /\ \A j \in 1..Len(Braces(t)) : Braces(t)[j] = IF j % 2 = 1 THEN "{" ELSE "}"

\* what stands between an opening brace and the closing brace after it is
\* nothing or :?
KnownPlaceholders(t) ==
    \A k \in 1..Len(t) : t[k] = "{" =>
        \/ k < Len(t) /\ t[k + 1] = "}"
        \/ k + 1 < Len(t) /\ t[k + 1] = ":?" /\ t[k + 2] = "}"

WellFormed(t) == Balanced(t) /\ KnownPlaceholders(t)

NumPlaceholders(t) == Cardinality({ k \in 1..Len(t) : t[k] = "{" })

\* the call has ended
Ended == ret # <<>>

\* C12: a call whose well-formed template has a number of placeholders other
\* than the number of values handed over panics, whether values are missing
\* or left over: nothing is returned and no line is printed.
C12_ArityMismatchPanics ==
    (Ended /\ WellFormed(call.msg) /\ NumPlaceholders(call.msg) # Len(call.disps)) =>
        /\ ~ret[1].ok
        /\ ret[1].line = <<>>
        /\ stderr = <<>>

\* two placeholders, one value
C12_Witness ==
    /\ Ended
    /\ call.op = "msg_with"
    /\ call.msg = <<"{", "}", "{", "}">>
    /\ Len(call.disps) = 1
    /\ ~ret[1].ok
    /\ stderr = <<>>

\* C13 as stated: a call with a template that is not well-formed (a brace
\* without its partner, or a placeholder that is neither {} nor {:?}) panics:
\* nothing is returned and no line is printed.
C13_MalformedTemplatesRejected ==
    (Ended /\ ~WellFormed(call.msg)) =>
        /\ ~ret[1].ok
        /\ stderr = <<>>

\* the plain and the debug form of a value
FormOf(disp, debug) ==
    IF ~debug THEN disp.val
    ELSE IF disp.kind \in {"Str", "Path"} THEN "\"" \o disp.val \o "\""
    ELSE DispText(disp, "Debug")

\* a well-formed template with its i-th placeholder replaced by the i-th value
RECURSIVE Rendering(_, _)
Rendering(t, disps) ==
    IF t = <<>> THEN ""
    ELSE IF Head(t) # "{" THEN Head(t) \o Rendering(Tail(t), disps)
    ELSE IF t[2] = "}"
    THEN FormOf(Head(disps), FALSE) \o Rendering(SubSeq(t, 3, Len(t)), Tail(disps))
    ELSE FormOf(Head(disps), TRUE) \o Rendering(SubSeq(t, 4, Len(t)), Tail(disps))

\* C14: a call with a well-formed template of n placeholders and n values
\* returns, and its message is the template with the i-th placeholder
\* replaced by the i-th value, plain for {} and in debug form (a string or a
\* path in quotes) for {:?}; msg_with and msg_str_with put the indentation
\* and the arrow in front, and new_with and msg_with print the line.
C14_RendersTemplateWithValues ==
    (Ended /\ WellFormed(call.msg) /\ NumPlaceholders(call.msg) = Len(call.disps)) =>
        /\ ret[1].ok
        /\ PlainText(ret[1].line) =
              (IF call.op = "new_with" THEN ""
               ELSE IndentStr(call.self.indent - 1) \o "-> ")
                 \o Rendering(call.msg, call.disps)
        /\ call.op # "msg_str_with" =>
              /\ Len(stderr) = 1
              /\ stderr[1].text = PlainText(ret[1].line)

\* "Found {} crates" with the count 7
C14_Witness ==
    /\ Ended
    /\ call.op = "new_with"
    /\ call.msg = <<"Found ", "{", "}", " crates">>
    /\ call.disps = <<Disp("Usize", "7")>>
    /\ stderr = <<[text |-> "Found 7 crates", arrow |-> "none", indent |-> ""]>>

\* the line a step printed
LastLine == stderr'[Len(stderr')]

\* C15: in the fetch phase full_dl_dialog keeps its depth d = 1; the
\* "Downloading {}..." line of every target and the end-of-run warning are
\* printed with d - 1 two-space units in front of an arrow in the colour of
\* their level, the announcement of a target returns a crate_dl_dialog of
\* depth d + 1, and the outcome line of the target is printed one unit
\* deeper, with d units in front of its arrow.
C15_AnnounceDepths ==
    [][(pc \in FetchPcs /\ pc' # "panic") =>
          /\ full_dl_dialog' = full_dl_dialog
          /\ full_dl_dialog.indent = 1
          /\ (pc' \in {"loop", "get"}) => Len(stderr') > Len(stderr)
          /\ (pc' = "done") => (Len(stderr') > Len(stderr) <=> num_install_errors # 0)
          /\ (Len(stderr') > Len(stderr)) =>
                (/\ Len(stderr') = Len(stderr) + 1
                 /\ IF pc = "loop" /\ pc' = "get"
                    THEN /\ LastLine.indent = IndentStr(full_dl_dialog.indent - 1)
                         /\ LastLine.arrow = LevelColor("Info")
                         /\ crate_dl_dialog'.indent = full_dl_dialog.indent + 1
                    ELSE IF pc = "loop"
                    THEN /\ LastLine.indent = IndentStr(full_dl_dialog.indent - 1)
                         /\ LastLine.arrow = LevelColor("Warn")
                         /\ pc' = "done"
                    ELSE /\ LastLine.indent = IndentStr(full_dl_dialog.indent)
                         /\ LastLine.arrow \in {LevelColor("Warn"), "green"}
                         /\ crate_dl_dialog' = crate_dl_dialog
                         /\ crate_dl_dialog.indent = full_dl_dialog.indent + 1
                         /\ pc' = "loop")]_vars

\* two targets, one downloaded and one failed, and the warning at the end
C15_Witness ==
    /\ pc = "done"
    /\ Len(outcomes) = 2
    /\ num_install_errors = 1
    /\ Len(stderr) = 9
    /\ stderr[5].indent = "" /\ stderr[5].arrow = "blue"
    /\ stderr[6].indent = "  "
    /\ stderr[7].indent = "" /\ stderr[7].arrow = "blue"
    /\ stderr[8].indent = "  "
    /\ { stderr[6].arrow, stderr[8].arrow } = {"green", "magenta"}
    /\ stderr[9].indent = "" /\ stderr[9].arrow = "magenta"
\* the dependents the plan keeps, in the order the scan found them
Kept == SelectSeq(uses_insta, LAMBDA v : (v.name \o "-" \o v.vers) \notin listing /\ v.has_dl)

\* the dependents for which no download URL resolves
Unresolved == { v \in Dependents : ~v.has_dl }

\* C16: the planning step leaves out every dependent whose download URL does
\* not resolve and keeps the others in the order of the scan, without an
\* error (the step can only fail on the index configuration itself); such a
\* dependent is never requested, never gets an outcome, and the failure count
\* only counts outcomes of planned targets.
C16_UnresolvedSilentlyDropped ==
    [][/\ (pc = "config" /\ pc' # "panic") =>
             /\ pc' = "fatal" => result' = "Err: index config"
             /\ pc' # "fatal" =>
                   /\ pc' = "planned"
                   /\ result' = result
                   /\ download_urls' = [k \in 1..Len(Kept) |-> UrlOf(Kept[k])]
       /\ \A v \in Unresolved :
             /\ \A k \in 1..Len(download_urls') : download_urls'[k] # UrlOf(v)
             /\ \A k \in 1..Len(requests') : requests'[k] # UrlOf(v)
             /\ \A k \in 1..Len(outcomes') : outcomes'[k].url # UrlOf(v)
       /\ num_install_errors' <= Len(download_urls')]_vars

\* d is dropped, the two other dependents are downloaded, nothing is counted
C16_Witness ==
    /\ pc = "done"
    /\ Unresolved # {}
    /\ Cardinality(Dependents) = 3
    /\ Len(download_urls) = 2
    /\ Len(requests) = 2
    /\ num_install_errors = 0
    /\ ~warned
    /\ result = "Ok"

\* the newest version of a crate
Newest(c) == CHOOSE v \in c.versions : \A w \in c.versions : w.ord <= v.ord

\* C17: the scan cannot fail, and what it collects is exactly one record for
\* every crate that loads and whose newest version depends on insta, that
\* newest version: a crate whose older version only depends on insta is left
\* out, and so is a crate that does not load.
C17_OnlyHighestVersionCounts ==
    [][pc = "scan" =>
          /\ pc' \in {"scan", "local"}
          /\ result' = result
          /\ pc' = "local" =>
                /\ { uses_insta'[k] : k \in 1..Len(uses_insta') }
                      = { Newest(c) : c \in { k \in index : k.load_ok /\ "insta" \in Newest(k).deps } }
                /\ \A j, k \in 1..Len(uses_insta') :
                      j # k => uses_insta'[j].name # uses_insta'[k].name]_vars

\* b counts with its version 2, c (only version 1 depends on insta) and e
\* (does not load) do not
C17_Witness ==
    /\ pc = "local"
    /\ { c.name : c \in index } = {"b", "c", "e"}
    /\ Len(uses_insta) = 1
    /\ uses_insta[1].name = "b"
    /\ uses_insta[1].vers = "2"

\* C18: the local inventory scan ends the run only with the error of the
\* registry root or of the listing of the source directory; when it returns,
\* the key set holds the name of every entry that is readable and UTF-8,
\* whatever other entries are in the directory.
C18_OnlyListingFailureIsFatal ==
    [][(pc = "local" /\ pc' # "panic") =>
          /\ pc' = "fatal" => result' \in {"Err: registry root", "Err: src listing"}
          /\ pc' # "fatal" =>
                /\ pc' = "config"
                /\ result' = result
                /\ listing' = { e.name : e \in { f \in src_dir : f.ok /\ f.utf8 } }]_vars

\* an unreadable entry next to b-1
C18_Witness ==
    /\ pc = "config"
    /\ \E f \in src_dir : ~f.ok
    /\ Cardinality(src_dir) = 2
    /\ listing = {"b-1"}

\* C19: when main has returned an error, no request was issued, no target
\* was started and no file was created or changed; once a request was issued
\* main neither returns an error nor panics.
C19_FatalOnlyBeforeFirstRequest ==
    /\ pc = "fatal" =>
          /\ result \in PreconditionErrors
          /\ requests = <<>>
          /\ outcomes = <<>> /\ ran = <<>>
          /\ \A f \in DOMAIN cache : cache[f] = Pre
          /\ \A n \in DOMAIN src : src[n] = Pre
    /\ requests # <<>> =>
          /\ pc \notin {"fatal", "panic"}
          /\ result \in {"running", "Ok"}

\* the last check (the registry root for the cache and source paths) fails
\* with a plan of two targets
C19_Witness ==
    /\ pc = "fatal"
    /\ result = "Err: registry root"
    /\ ~dry_run
    /\ Len(download_urls) = 2
    /\ full_dl_dialog = Dialog(1)
    /\ requests = <<>>
====
